---- MODULE Spec2Model ----
(***************************************************************************)
(* PulseNet (src/src/main.rs): the address filter, the random address      *)
(* source, the per-address multi-port probe (Scanner::check_ip) and the    *)
(* concurrent probing engine of main (rate limiter, worker semaphore,      *)
(* buffer_unordered stream, aggregation loop), MultiIpSource and the       *)
(* source selection of main.                                               *)
(*                                                                         *)
(* Nine specifications share the module:                                   *)
(*   SpecFilter  filter::is_public_ipv4 applied to sampled addresses       *)
(*   SpecSource  RandomSource::next_ip / total_count                       *)
(*   SpecProbe   Scanner::check_ip on one address                          *)
(*   Spec        the engine of main, over every configuration              *)
(*   SpecBurst   the engine of main, over longer address lists with one    *)
(*               worker and one port (the rate limiter under load)         *)
(*   SpecWide    the engine of main with more workers than the stream's    *)
(*               buffer holds                                              *)
(*   SpecLive    Spec under weak fairness of every step of the runtime     *)
(*   SpecInput   MultiIpSource::from_cidr / from_file, the source          *)
(*               selection of main and the draining of the source          *)
(*   SpecRun     main from the source selection to its return              *)
(***************************************************************************)
EXTENDS Integers, Sequences, FiniteSets, TLC

VARIABLES
    fip,        \* SpecFilter: the address handed to is_public_ipv4
    fres,       \* SpecFilter: <<>> before the call, then <<what is_public_ipv4 returned>>
    source,     \* SpecSource: RandomSource { count, current }
    spc,        \* SpecSource: "idle", or "loop" while next_ip is inside its sampling loop
    rejected,   \* SpecSource: whether the running next_ip call has discarded a sample
    returned,   \* SpecSource: the value of every finished next_ip call, in call order
    scanner,    \* Scanner { ports, timeout_ms, simulate }
    probe,      \* SpecProbe: the one check_ip call: [pc, idx, last_error, result]
    attempts,   \* SpecProbe: every connection attempt made, [port, outcome], in order
    args,       \* Spec: Args { workers, rate }
    phase,      \* Spec: where main is: "setup", "running", "done" (returned Ok),
                \*       "failed" (returned Err) or "panicked"
    ips,        \* Spec: the materialized address list
    tasks,      \* Spec: per address, its probe future: [pc, idx, last_error, result]
    waiters,    \* Spec: the futures queued in sem.acquire(), oldest first
    permits,    \* Spec: the permits the semaphore has available
    gcra,       \* Spec: the rate limiter's state: None before its first use, then
                \*       Some(theoretical arrival time - now), in units of 1/rate second
    passAge,    \* Spec: per address, how many units of time ago its future passed
                \*       the limiter: -1 not yet, Horizon + 1 longer ago than Horizon
    stats,      \* Spec: Stats
    delivered,  \* Spec: the addresses of the (ip, outcome) pairs the aggregation
                \*       loop received, in order (the outcomes are folded into stats)
    file,       \* Spec: how many lines this run appended to the full log (args.output)
    clean_file, \* Spec: how many lines this run appended to found_ips.txt
    given,      \* SpecInput: the CIDR entries and the file lines the run was given,
                \*       each with what it denotes (the strings below are built from them)
    fs,         \* SpecInput: what std::fs::read_to_string gives for args.file
    boxed,      \* SpecInput: the Box<dyn IpSource> of main, None before it is built
    total,      \* SpecInput: source.total_count() as main took it, None before
    chosen      \* SpecInput: the constructor main called: "cidr", "file" or "random"

filterVars == <<fip, fres>>
sourceVars == <<source, spc, rejected, returned>>
probeVars == <<probe, attempts>>
inputVars == <<given, fs, boxed, total, chosen>>
engineVars ==
    <<args, phase, ips, tasks, waiters, permits, gcra, passAge, stats, delivered,
      file, clean_file>>

\* Option<T>: None is the empty tuple, Some(x) the one-element tuple.
None == <<>>
Some(x) == <<x>>

----------------------------------------------------------------------------
(* filter::is_public_ipv4 *)

\* Ipv4Addr::octets: an address is its four octets, most significant first.

\* The first matching arm of the match decides; an arm whose guard fails is
\* skipped and the next arm is tried, so both 192 arms are reachable.
is_public_ipv4_first_arm_only(ip) ==
    LET o == ip IN
    IF o[1] = 10 THEN FALSE
    ELSE IF o[1] = 100 THEN ~(o[2] \in 64..127)
    ELSE IF o[1] = 127 THEN FALSE
    ELSE IF o[1] = 169 THEN ~(o[2] = 254)
    ELSE IF o[1] = 172 THEN ~(o[2] \in 16..31)
    ELSE IF o[1] = 192 THEN ~(o[2] = 168)
    ELSE IF o[1] = 198 THEN ~(o[2] = 51 /\ o[3] = 100)
    ELSE IF o[1] = 203 THEN ~(o[2] = 0 /\ o[3] = 113)
    ELSE IF o[1] >= 224 THEN FALSE
    ELSE TRUE

is_public_ipv4(ip) ==
    LET octets == ip IN
    IF octets[1] = 10 THEN FALSE
    ELSE IF octets[1] = 100 /\ octets[2] \in 64..127 THEN FALSE
    ELSE IF octets[1] = 127 THEN FALSE
    ELSE IF octets[1] = 169 /\ octets[2] = 254 THEN FALSE
    ELSE IF octets[1] = 172 /\ octets[2] \in 16..31 THEN FALSE
    ELSE IF octets[1] = 192 /\ octets[2] = 168 THEN FALSE
    ELSE IF octets[1] = 192 /\ octets[2] = 0 /\ octets[3] = 2 THEN FALSE
    ELSE IF octets[1] = 198 /\ octets[2] = 51 /\ octets[3] = 100 THEN FALSE
    ELSE IF octets[1] = 203 /\ octets[2] = 0 /\ octets[3] = 113 THEN FALSE
    ELSE IF octets[1] >= 224 THEN FALSE
    ELSE TRUE

\* The octets the filter's arms compare against, each with its two neighbours,
\* and the ends of the octet range.
FirstOctets ==
    {0, 1, 8, 9, 10, 11, 99, 100, 101, 126, 127, 128, 168, 169, 170, 171, 172,
     173, 191, 192, 193, 197, 198, 199, 202, 203, 204, 223, 224, 225, 240, 255}
SecondOctets ==
    {0, 1, 8, 15, 16, 17, 31, 32, 50, 51, 52, 63, 64, 65, 100, 113, 127, 128,
     167, 168, 169, 253, 254, 255}
ThirdOctets == {0, 1, 2, 3, 8, 99, 100, 101, 112, 113, 114, 168, 255}
FourthOctets == {0, 1, 8, 255}

FilterInputs ==
    {<<a, b, c, d>> : a \in FirstOctets, b \in SecondOctets,
                      c \in ThirdOctets, d \in FourthOctets}

FilterIdle == fip = <<0, 0, 0, 0>> /\ fres = <<>>

FilterInit == fip \in FilterInputs /\ fres = <<>>

\* One call of is_public_ipv4 on the chosen address.
FilterCall ==
    /\ fres = <<>>
    /\ fres' = <<is_public_ipv4(fip)>>
    /\ fip' = fip
    /\ UNCHANGED <<inputVars, sourceVars, scanner, probeVars, engineVars>>


----------------------------------------------------------------------------
(* RandomSource *)

MaxCount == 3       \* largest count a RandomSource is created with
ExtraCalls == 2     \* next_ip calls made after the source is exhausted

\* Addresses the random generator may draw (any four octets): public ones and
\* ones from several excluded ranges.
RngAddrs ==
    { <<8, 8, 8, 8>>, <<1, 1, 1, 1>>, <<10, 1, 2, 3>>, <<192, 0, 2, 1>>,
      <<192, 168, 1, 1>>, <<224, 0, 0, 1>> }

total_count(s) == s.count

ExhaustedOffByOne(s) == s.current > s.count

\* if self.current >= self.count { return None; }
Exhausted(s) == s.current >= s.count

SourceIdle ==
    /\ source = [count |-> 0, current |-> 0]
    /\ spc = "idle" /\ rejected = FALSE /\ returned = <<>>

SourceInit ==
    /\ source \in [count : 0..MaxCount, current : {0}]
    /\ spc = "idle" /\ rejected = FALSE /\ returned = <<>>

\* A call of next_ip up to the start of its loop: None when exhausted, else
\* current is incremented and sampling starts.
NextIpEnter ==
    /\ spc = "idle"
    /\ Len(returned) < source.count + ExtraCalls
    /\ IF Exhausted(source)
       THEN /\ returned' = Append(returned, None)
            /\ UNCHANGED <<source, spc, rejected>>
       ELSE /\ source' = [source EXCEPT !.current = @ + 1]
            /\ spc' = "loop"
            /\ rejected' = FALSE
            /\ UNCHANGED returned
    /\ UNCHANGED <<inputVars, filterVars, scanner, probeVars, engineVars>>

\* One iteration of the loop: draw four octets, return the address when the
\* filter accepts it, draw again otherwise.
NextIpSample(ip) ==
    /\ spc = "loop"
    /\ IF is_public_ipv4(ip)
       THEN /\ returned' = Append(returned, Some(ip))
            /\ spc' = "idle"
            /\ UNCHANGED <<source, rejected>>
       ELSE /\ rejected' = TRUE
            /\ UNCHANGED <<source, spc, returned>>
    /\ UNCHANGED <<inputVars, filterVars, scanner, probeVars, engineVars>>

----------------------------------------------------------------------------
(* Scanner::check_ip *)

MaxPorts == 3       \* longest configured port list
MaxLatency == 1     \* largest elapsed time (ms) a successful connection reports
MaxTimeout == 3     \* largest --timeout (ms) of a check_ip call followed on its own

DefaultTimeout == 1500   \* the default of Args::timeout

\* Port numbers a configuration may list (the defaults of Args::ports).
PortPool == {80, 443}
PortLists == UNION { [1..n -> PortPool] : n \in 0..MaxPorts }

\* What timeout(port_timeout, TcpStream::connect(addr)).await can give:
\* Ok(Ok(_)), Ok(Err(e)) with e.kind() ConnectionRefused, Ok(Err(e)) with
\* any other kind, and Err(_) when the slice elapsed.
Outcomes == {"Connected", "Refused", "OtherError", "Elapsed"}

\* ScanError
Timeout == "Timeout"
ConnectionRefused == "ConnectionRefused"
Unreachable == "Unreachable"

\* rng.gen_range(5..50): the ends of the range.
SimLatencies == {5, 49}

max(a, b) == IF a >= b THEN a ELSE b

port_timeout_rounds_up(sc) ==
    (sc.timeout_ms + max(Len(sc.ports), 1) - 1) \div max(Len(sc.ports), 1)

\* Duration::from_millis(self.timeout_ms / self.ports.len().max(1) as u64),
\* in milliseconds (u64 division truncates).
port_timeout(sc) == sc.timeout_ms \div max(Len(sc.ports), 1)

\* timeout(port_timeout, TcpStream::connect(addr)) polls the connection once
\* before its timer: a connection is never established by its first poll, so
\* with a slice of zero the attempt cannot end in Ok(Ok(_)); it ends in
\* Err(_), or in Ok(Err(e)) when the connect call fails at once.
CanEnd(sc, outcome) == outcome = "Connected" => port_timeout(sc) > 0

RecordErrorTimeoutOverwrites(last_error, outcome) ==
    IF outcome = "Refused" THEN Some(ConnectionRefused)
    ELSE IF outcome = "OtherError" THEN Some(Unreachable)
    ELSE Some(Timeout)

RecordErrorFirstExplicitWins(last_error, outcome) ==
    IF outcome = "Elapsed"
    THEN IF last_error = None THEN Some(Timeout) ELSE last_error
    ELSE IF last_error = None \/ last_error = Some(Timeout)
         THEN IF outcome = "Refused" THEN Some(ConnectionRefused) ELSE Some(Unreachable)
         ELSE last_error

\* The Ok(Err(e)) and Err(_) arms of the match: the new value of last_error.
RecordError(last_error, outcome) ==
    IF outcome = "Refused" THEN Some(ConnectionRefused)
    ELSE IF outcome = "OtherError" THEN Some(Unreachable)
    ELSE IF last_error = None THEN Some(Timeout) ELSE last_error

\* The head of `for &port in &self.ports`: the attempt on port number idx is
\* issued, or the loop is over and (None, None, last_error) is returned.
LoopHead(sc, idx, last_error) ==
    IF idx <= Len(sc.ports)
    THEN [pc |-> "connect", idx |-> idx, last_error |-> last_error, result |-> None]
    ELSE [pc |-> "returned", idx |-> idx, last_error |-> last_error,
          result |-> Some(<<None, None, last_error>>)]

\* check_ip up to its first await: the sleep of simulate mode, or the first
\* connection attempt (or the return, when there is no port).
CheckIpEnter(sc) ==
    IF sc.simulate
    THEN [pc |-> "sleep", idx |-> 1, last_error |-> None, result |-> None]
    ELSE LoopHead(sc, 1, None)

AfterAttemptKeepsGoing(sc, c, outcome, elapsed) ==
    IF outcome = "Connected" /\ c.idx = Len(sc.ports)
    THEN [c EXCEPT !.pc = "returned",
                   !.result = Some(<<Some(sc.ports[c.idx]), Some(elapsed), None>>)]
    ELSE IF outcome = "Connected"
    THEN LoopHead(sc, c.idx + 1, c.last_error)
    ELSE LoopHead(sc, c.idx + 1, RecordError(c.last_error, outcome))

\* The match on one attempt's outcome, up to the next await or the return.
AfterAttempt(sc, c, outcome, elapsed) ==
    IF outcome = "Connected"
    THEN [c EXCEPT !.pc = "returned",
                   !.result = Some(<<Some(sc.ports[c.idx]), Some(elapsed), None>>)]
    ELSE LoopHead(sc, c.idx + 1, RecordError(c.last_error, outcome))

\* Simulate mode after the sleep: rng.gen_bool(0.05) decides; self.ports[0]
\* panics (index out of bounds) when the port list is empty.
AfterSleep(sc, c, hit, lat) ==
    IF ~hit
    THEN [c EXCEPT !.pc = "returned", !.result = Some(<<None, None, Some(Timeout)>>)]
    ELSE IF Len(sc.ports) = 0
    THEN [c EXCEPT !.pc = "panicked"]
    ELSE [c EXCEPT !.pc = "returned",
                   !.result = Some(<<Some(sc.ports[1]), Some(lat), None>>)]

NotCalled == [pc |-> "start", idx |-> 1, last_error |-> None, result |-> None]

ProbeIdle ==
    /\ scanner = [ports |-> <<>>, timeout_ms |-> DefaultTimeout, simulate |-> FALSE]
    /\ probe = NotCalled /\ attempts = <<>>

ProbeInit ==
    /\ scanner \in [ports : PortLists, timeout_ms : 0..MaxTimeout, simulate : BOOLEAN]
    /\ probe = NotCalled /\ attempts = <<>>

\* check_ip is called.
ProbeCall ==
    /\ probe.pc = "start"
    /\ probe' = CheckIpEnter(scanner)
    /\ UNCHANGED <<scanner, attempts, inputVars, filterVars, sourceVars, engineVars>>

\* The pending connection attempt ends.
ProbeAttempt(outcome, elapsed) ==
    /\ probe.pc = "connect"
    /\ CanEnd(scanner, outcome)
    /\ probe' = AfterAttempt(scanner, probe, outcome, elapsed)
    /\ attempts' = Append(attempts, [port |-> scanner.ports[probe.idx], outcome |-> outcome])
    /\ UNCHANGED <<scanner, inputVars, filterVars, sourceVars, engineVars>>

\* The sleep of simulate mode ends.
ProbeWake(hit, lat) ==
    /\ probe.pc = "sleep"
    /\ probe' = AfterSleep(scanner, probe, hit, lat)
    /\ UNCHANGED <<scanner, attempts, inputVars, filterVars, sourceVars, engineVars>>

ProbeNext ==
    \/ ProbeCall
    \/ \E o \in Outcomes, e \in 0..MaxLatency : ProbeAttempt(o, e)
    \/ \E hit \in BOOLEAN, lat \in SimLatencies : ProbeWake(hit, lat)

----------------------------------------------------------------------------
(* main: the probing engine *)

MaxAddrs == 2        \* longest materialized address list
MaxWorkers == 2      \* largest --workers
MaxRate == 2         \* largest --rate
MaxEnginePorts == 2  \* longest port list of an engine run
MaxBurstAddrs == 3   \* longest address list of a run that follows the limiter

BufferCap == 2048    \* buffer_unordered(2048)

\* The default of Args::ports; an engine run is configured with a prefix of
\* it: no port, one port or MaxEnginePorts ports.
DefaultPorts == <<80, 443, 22, 8080>>
EnginePortLists == { SubSeq(DefaultPorts, 1, n) : n \in {0, 1, MaxEnginePorts} }

\* The oldest limiter pass that is still remembered, in units of 1/rate
\* second: a window of one second spans args.rate <= MaxRate units.
Horizon == MaxRate

Unstarted == [pc |-> "unstarted", idx |-> 1, last_error |-> None, result |-> None]
AtLimiter == [pc |-> "limiter", idx |-> 1, last_error |-> None, result |-> None]
\* A future that completed: its output was moved to the aggregation loop.
Yielded == [pc |-> "yielded", idx |-> 1, last_error |-> None, result |-> None]

\* Stats::default()
NoStats ==
    [found |-> 0, timeouts |-> 0, refused |-> 0, unreachable |-> 0,
     total_processed |-> 0, total_latency |-> 0]

EngineIdle ==
    /\ args = [workers |-> 0, rate |-> 1]
    /\ phase = "setup" /\ ips = <<>> /\ tasks = <<>> /\ waiters = <<>>
    /\ permits = 0 /\ gcra = None /\ passAge = <<>>
    /\ stats = NoStats /\ delivered = <<>>
    /\ file = 0 /\ clean_file = 0

EngineInit ==
    /\ args \in [workers : 0..MaxWorkers, rate : {0, 1, MaxRate}]
    /\ scanner \in [ports : EnginePortLists, timeout_ms : {DefaultTimeout},
                     simulate : BOOLEAN]
    /\ ips \in { [k \in 1..n |-> k] : n \in 0..MaxAddrs }
    /\ phase = "setup" /\ tasks = <<>> /\ waiters = <<>>
    /\ permits = 0 /\ gcra = None /\ passAge = <<>>
    /\ stats = NoStats /\ delivered = <<>>
    /\ file = 0 /\ clean_file = 0

\* Runs with one worker, or with more workers than the stream holds futures.
WideInit ==
    /\ args \in [workers : {1, 2 * BufferCap}, rate : {1}]
    /\ scanner \in [ports : {SubSeq(DefaultPorts, 1, 1)}, timeout_ms : {DefaultTimeout},
                     simulate : BOOLEAN]
    /\ ips \in { [k \in 1..n |-> k] : n \in 0..MaxAddrs }
    /\ phase = "setup" /\ tasks = <<>> /\ waiters = <<>>
    /\ permits = 0 /\ gcra = None /\ passAge = <<>>
    /\ stats = NoStats /\ delivered = <<>>
    /\ file = 0 /\ clean_file = 0

\* Runs over longer address lists, with one worker and one port.
BurstInit ==
    /\ args \in [workers : {1}, rate : 0..MaxRate]
    /\ scanner \in [ports : {SubSeq(DefaultPorts, 1, 1)}, timeout_ms : {DefaultTimeout},
                     simulate : BOOLEAN]
    /\ ips \in { [k \in 1..n |-> k] : n \in 0..MaxBurstAddrs }
    /\ phase = "setup" /\ tasks = <<>> /\ waiters = <<>>
    /\ permits = 0 /\ gcra = None /\ passAge = <<>>
    /\ stats = NoStats /\ delivered = <<>>
    /\ file = 0 /\ clean_file = 0

AggregateCountsHitsTwice(st, res) ==
    IF res[1] # None
    THEN [st EXCEPT !.total_processed = @ + 2, !.found = @ + 1,
                    !.total_latency = @ + (IF res[2] = None THEN 0 ELSE res[2][1])]
    ELSE [st EXCEPT !.total_processed = @ + 1]

\* The body of the aggregation loop for one (port_found, latency, error).
Aggregate(st, res) ==
    LET counted == [st EXCEPT !.total_processed = @ + 1] IN
    IF res[1] # None
    THEN [counted EXCEPT !.found = @ + 1,
                         !.total_latency = @ + (IF res[2] = None THEN 0 ELSE res[2][1])]
    ELSE IF res[3] = Some(Timeout) THEN [counted EXCEPT !.timeouts = @ + 1]
    ELSE IF res[3] = Some(ConnectionRefused) THEN [counted EXCEPT !.refused = @ + 1]
    ELSE IF res[3] = Some(Unreachable) THEN [counted EXCEPT !.unreachable = @ + 1]
    ELSE counted

\* A sink is followed by the number of lines the run has appended to it.
LogHitInEveryMode(sink, sc, ip, res) ==
    IF res[1] # None THEN sink + 1 ELSE sink

\* What the aggregation loop writes to a sink for one (ip, outcome): one line
\* for a Hit outside simulate mode (writeln! to clean_file, and to file in
\* either format), nothing otherwise.  An error of the write is discarded
\* (let _ =) and the loop goes on; the writes are taken to succeed.
LogHit(sink, sc, ip, res) ==
    IF res[1] # None /\ ~sc.simulate THEN sink + 1 ELSE sink

\* The futures buffer_unordered holds: created and not yet yielded.
InFlight(ts) == {k \in 1..Len(ts) : ts[k].pc \notin {"unstarted", "yielded"}}

\* buffer_unordered pulls the next address from the iterator while fewer than
\* BufferCap futures are in flight; a new future first awaits the limiter.
RECURSIVE Refill(_)
Refill(ts) ==
    LET waiting == {k \in 1..Len(ts) : ts[k].pc = "unstarted"} IN
    IF waiting = {} \/ Cardinality(InFlight(ts)) >= BufferCap
    THEN ts
    ELSE Refill([ts EXCEPT ![CHOOSE k \in waiting : \A j \in waiting : k <= j] = AtLimiter])

CanYieldInSubmissionOrder(ts, i) == \A j \in 1..(i - 1) : ts[j].pc = "yielded"

\* buffer_unordered yields the output of whichever future completes,
\* whatever the state of the futures created before it.
CanYield(ts, i) == TRUE

\* governor's GCRA for Quota::per_second(rate): emission interval t = 1/rate
\* second (the unit of time here), tolerance tau = rate * t.  A fresh limiter
\* takes now + t as its theoretical arrival time; a cell is let through when
\* now >= tat - tau, and then tat becomes max(tat, now) + t.
GcraTat(g) == IF g = None THEN 1 ELSE g[1]
AdmitsAlways(g, rate) == TRUE
Admits(g, rate) == GcraTat(g) <= rate
GcraNext(g) == Some(GcraTat(g) + 1)

HasPermitAlways(avail) == TRUE

\* sem.acquire() completes only by taking one of the available permits.
HasPermit(avail) == avail > 0

ReleaseLeaks(avail) == avail

\* _permit is dropped when the future's block ends.
Release(avail) == avail + 1

\* The rest of a poll of future i, whose check_ip (holding a permit) has
\* reached state c, avail permits being left in the semaphore: suspended at an
\* await, or finished, in which case the permit is dropped, the stream yields
\* (ip, outcome), the aggregation loop body runs and the stream refills.  A
\* panic unwinds main, which drops the stream, its futures and their permits.
Settle(i, c, avail) ==
    IF c.pc = "panicked"
    THEN /\ phase' = "panicked"
         /\ tasks' = [tasks EXCEPT ![i] = c]
         /\ permits' = Release(avail)
         /\ UNCHANGED <<stats, delivered, file, clean_file>>
    ELSE IF c.pc = "returned"
    THEN /\ CanYield(tasks, i)
         /\ tasks' = Refill([tasks EXCEPT ![i] = Yielded])
         /\ permits' = Release(avail)
         /\ stats' = Aggregate(stats, c.result[1])
         /\ delivered' = Append(delivered, ips[i])
         /\ file' = LogHit(file, scanner, ips[i], c.result[1])
         /\ clean_file' = LogHit(clean_file, scanner, ips[i], c.result[1])
         /\ UNCHANGED phase
    ELSE /\ tasks' = [tasks EXCEPT ![i] = c]
         /\ permits' = avail
         /\ UNCHANGED <<phase, stats, delivered, file, clean_file>>

\* main from the opening of the sinks to the first poll of the stream: the two
\* sinks are opened (each open may fail), the limiter and the semaphore are
\* created and the stream creates its futures.
Start(file_opened, clean_file_opened) ==
    /\ phase = "setup"
    /\ IF ~file_opened \/ ~clean_file_opened
       THEN \* open(...)? returns the error from main
            /\ phase' = "failed"
            /\ UNCHANGED <<tasks, permits, gcra, passAge>>
       ELSE IF args.rate = 0
       THEN \* NonZeroU32::new(0) is None and unwrap() panics
            /\ phase' = "panicked"
            /\ UNCHANGED <<tasks, permits, gcra, passAge>>
       ELSE /\ phase' = "running"
            /\ permits' = args.workers
            /\ gcra' = None
            /\ tasks' = Refill([k \in 1..Len(ips) |-> Unstarted])
            /\ passAge' = [k \in 1..Len(ips) |-> -1]
    /\ UNCHANGED <<args, ips, waiters, stats, delivered, file, clean_file>>
    /\ UNCHANGED <<inputVars, filterVars, sourceVars, scanner, probeVars>>

\* lim.until_ready() lets future i through, which goes on to sem.acquire():
\* with a permit free and nobody queued it enters check_ip at once, otherwise
\* it queues.
PassLimiter(i) ==
    /\ phase = "running"
    /\ tasks[i].pc = "limiter"
    /\ Admits(gcra, args.rate)
    /\ gcra' = GcraNext(gcra)
    /\ passAge' = [passAge EXCEPT ![i] = 0]
    /\ IF HasPermit(permits) /\ waiters = <<>>
       THEN /\ Settle(i, CheckIpEnter(scanner), permits - 1)
            /\ UNCHANGED waiters
       ELSE /\ tasks' = [tasks EXCEPT ![i].pc = "permit"]
            /\ waiters' = Append(waiters, i)
            /\ UNCHANGED <<phase, permits, stats, delivered, file, clean_file>>
    /\ UNCHANGED <<args, ips>>
    /\ UNCHANGED <<inputVars, filterVars, sourceVars, scanner, probeVars>>

\* The semaphore hands a free permit to the oldest queued future, which
\* enters check_ip.
AcquirePermit ==
    /\ phase = "running"
    /\ waiters # <<>>
    /\ HasPermit(permits)
    /\ waiters' = Tail(waiters)
    /\ Settle(Head(waiters), CheckIpEnter(scanner), permits - 1)
    /\ UNCHANGED <<args, ips, gcra, passAge>>
    /\ UNCHANGED <<inputVars, filterVars, sourceVars, scanner, probeVars>>

\* The connection attempt of future i ends.
ConnectDone(i, outcome, elapsed) ==
    /\ phase = "running"
    /\ tasks[i].pc = "connect"
    /\ CanEnd(scanner, outcome)
    /\ Settle(i, AfterAttempt(scanner, tasks[i], outcome, elapsed), permits)
    /\ UNCHANGED <<args, ips, waiters, gcra, passAge>>
    /\ UNCHANGED <<inputVars, filterVars, sourceVars, scanner, probeVars>>

\* The simulate-mode sleep of future i ends.
SleepDone(i, hit, lat) ==
    /\ phase = "running"
    /\ tasks[i].pc = "sleep"
    /\ Settle(i, AfterSleep(scanner, tasks[i], hit, lat), permits)
    /\ UNCHANGED <<args, ips, waiters, gcra, passAge>>
    /\ UNCHANGED <<inputVars, filterVars, sourceVars, scanner, probeVars>>

\* stream.next() returns None: every future was yielded; main prints the
\* summary and returns Ok(()).
StreamEnd ==
    /\ phase = "running"
    /\ \A k \in 1..Len(tasks) : tasks[k].pc = "yielded"
    /\ phase' = "done"
    /\ UNCHANGED <<args, ips, tasks, waiters, permits, gcra, passAge, stats, delivered,
                   file, clean_file>>
    /\ UNCHANGED <<inputVars, filterVars, sourceVars, scanner, probeVars>>

\* 1/rate second passes.  Only the limiter reads the clock, so time is
\* followed while some future waits in until_ready().
Tick ==
    /\ phase = "running"
    /\ \E k \in 1..Len(tasks) : tasks[k].pc = "limiter"
    /\ gcra' = IF gcra = None \/ gcra = Some(0) THEN gcra ELSE Some(gcra[1] - 1)
    /\ passAge' = [k \in 1..Len(passAge) |->
                       IF passAge[k] = -1 \/ passAge[k] > Horizon
                       THEN passAge[k] ELSE passAge[k] + 1]
    /\ UNCHANGED <<args, phase, ips, tasks, waiters, permits, stats, delivered,
                   file, clean_file>>
    /\ UNCHANGED <<inputVars, filterVars, sourceVars, scanner, probeVars>>

Next ==
    \/ \E file_opened, clean_file_opened \in BOOLEAN : Start(file_opened, clean_file_opened)
    \/ \E i \in 1..Len(tasks) : PassLimiter(i)
    \/ AcquirePermit
    \/ \E i \in 1..Len(tasks), o \in Outcomes, e \in {0, MaxLatency} : ConnectDone(i, o, e)
    \/ \E i \in 1..Len(tasks), hit \in BOOLEAN, lat \in SimLatencies : SleepDone(i, hit, lat)
    \/ StreamEnd
    \/ Tick

----------------------------------------------------------------------------
(* MultiIpSource, and the source selection and draining of main *)

MaxEntries == 2     \* most entries of a --cidr list
MaxLines == 3       \* most lines of an input file

\* A str is the sequence of its characters.
Digits == <<"0", "1", "2", "3", "4", "5", "6", "7", "8", "9">>
IsDigit(c) == \E k \in 1..10 : Digits[k] = c
DigitValue(c) == (CHOOSE k \in 1..10 : Digits[k] = c) - 1
IsSpace(c) == c \in {" ", "\t", "\r", "\n"}

RECURSIVE trim_start(_)
RECURSIVE trim_end(_)
RECURSIVE split(_, _)
RECURSIVE decimal(_)
RECURSIVE Pow2(_)
RECURSIVE extend_hosts(_, _)
RECURSIVE push_parsed(_, _)

\* str::trim
trim_start(t) == IF t # <<>> /\ IsSpace(Head(t)) THEN trim_start(Tail(t)) ELSE t
trim_end(t) ==
    IF t # <<>> /\ IsSpace(t[Len(t)]) THEN trim_end(SubSeq(t, 1, Len(t) - 1)) ELSE t
trim(t) == trim_end(trim_start(t))

no_trim(t) == t

\* s.trim() and line.trim() of the two constructors.
trimmed(t) == trim(t)

\* str::split(sep): the pieces between the separators, empty ones included
\* (one empty piece for the empty string).
split(t, sep) ==
    IF \A k \in 1..Len(t) : t[k] # sep
    THEN <<t>>
    ELSE LET k == CHOOSE k \in 1..Len(t) : t[k] = sep /\ \A j \in 1..(k - 1) : t[j] # sep
         IN <<SubSeq(t, 1, k - 1)>> \o split(SubSeq(t, k + 1, Len(t)), sep)

\* str::lines: the pieces between line feeds, without a final empty piece,
\* each without its trailing carriage return.
lines(t) ==
    LET pieces == split(t, "\n")
        kept == IF pieces[Len(pieces)] = <<>>
                THEN SubSeq(pieces, 1, Len(pieces) - 1) ELSE pieces
    IN [k \in 1..Len(kept) |->
           IF kept[k] # <<>> /\ kept[k][Len(kept[k])] = "\r"
           THEN SubSeq(kept[k], 1, Len(kept[k]) - 1) ELSE kept[k]]

decimal(t) ==
    IF t = <<>> THEN 0 ELSE decimal(SubSeq(t, 1, Len(t) - 1)) * 10 + DigitValue(t[Len(t)])

\* A decimal number of at most `digits` digits, without a sign or a leading
\* zero, that is at most `most`.
parse_number(t, digits, most) ==
    IF /\ Len(t) \in 1..digits
       /\ \A k \in 1..Len(t) : IsDigit(t[k])
       /\ Len(t) > 1 => t[1] # "0"
       /\ decimal(t) <= most
    THEN Some(decimal(t)) ELSE None

\* str::parse::<Ipv4Addr>: four octets separated by dots, nothing else.
parse_Ipv4Addr(t) ==
    LET parts == split(t, ".") IN
    IF Len(parts) = 4 /\ \A k \in 1..4 : parse_number(parts[k], 3, 255) # None
    THEN Some([k \in 1..4 |-> parse_number(parts[k], 3, 255)[1]])
    ELSE None

\* str::parse::<Ipv4Net>: an address, a slash and a prefix length of at most
\* 32; the address may have bits set beyond the prefix.
parse_Ipv4Net(t) ==
    LET parts == split(t, "/") IN
    IF /\ Len(parts) = 2
       /\ parse_Ipv4Addr(parts[1]) # None
       /\ parse_number(parts[2], 2, 32) # None
    THEN Some([addr |-> parse_Ipv4Addr(parts[1])[1],
               prefix_len |-> parse_number(parts[2], 2, 32)[1]])
    ELSE None

\* An address as a u32 and back.
to_u32(ip) == ((ip[1] * 256 + ip[2]) * 256 + ip[3]) * 256 + ip[4]
from_u32(n) == <<n \div 16777216, (n \div 65536) % 256, (n \div 256) % 256, n % 256>>

Pow2(n) == IF n = 0 THEN 1 ELSE 2 * Pow2(n - 1)

\* Ipv4Net::network, Ipv4Net::broadcast
network(net) ==
    (to_u32(net.addr) \div Pow2(32 - net.prefix_len)) * Pow2(32 - net.prefix_len)
broadcast(net) == network(net) + Pow2(32 - net.prefix_len) - 1

\* Ipv4Net::hosts: from the network address to the broadcast address, both
\* left out when the prefix is shorter than 31 bits.
hosts(net) ==
    LET start == IF net.prefix_len < 31 THEN network(net) + 1 ELSE network(net)
        end == IF net.prefix_len < 31 THEN broadcast(net) - 1 ELSE broadcast(net)
    IN [k \in 1..(end - start + 1) |-> from_u32(start + k - 1)]

\* The loop of from_cidr over the pieces of the list.
extend_hosts(ips_, pieces) ==
    IF pieces = <<>> THEN ips_
    ELSE LET net == parse_Ipv4Net(trimmed(Head(pieces))) IN
         extend_hosts(IF net # None THEN ips_ \o hosts(net[1]) ELSE ips_, Tail(pieces))

from_cidr_stops_at_malformed(cidr_strs) ==
    LET pieces == split(cidr_strs, ",") IN
    IF \E k \in 1..Len(pieces) : parse_Ipv4Net(trimmed(pieces[k])) = None
    THEN <<>> ELSE extend_hosts(<<>>, pieces)

\* MultiIpSource::from_cidr, up to the shuffle.
from_cidr(cidr_strs) == extend_hosts(<<>>, split(cidr_strs, ","))

\* The loop of from_file over the lines of the content.
push_parsed(ips_, ls) ==
    IF ls = <<>> THEN ips_
    ELSE LET ip == parse_Ipv4Addr(trimmed(Head(ls))) IN
         push_parsed(IF ip # None THEN Append(ips_, ip[1]) ELSE ips_, Tail(ls))

\* MultiIpSource::from_file, up to the shuffle; content is what
\* read_to_string gave (None for an error).
from_file(content) ==
    IF content = None THEN <<>> ELSE push_parsed(<<>>, lines(content[1]))

\* ips.shuffle(&mut rng): the vector in any order.
Shuffles(v) == { [k \in 1..Len(v) |-> v[p[k]]] : p \in Permutations(1..Len(v)) }

\* impl IpSource for MultiIpSource
MultiIpSource_total_count(s) == Len(s.ips)
MultiIpSource_next_ip(s) ==
    IF s.ips = <<>> THEN <<s, None>>
    ELSE <<[s EXCEPT !.ips = SubSeq(@, 1, Len(@) - 1)], Some(s.ips[Len(s.ips)])>>

\* RandomSource::next_ip as one call, ip being the sample the filter accepts.
RandomSource_next_ip(s, ip) ==
    IF Exhausted(s) THEN <<s, None>>
    ELSE <<[s EXCEPT !.current = @ + 1], Some(ip)>>

\* The calls through Box<dyn IpSource>.
dyn_total_count(s) ==
    IF s.is = "MultiIpSource" THEN MultiIpSource_total_count(s) ELSE total_count(s)
dyn_next_ip(s, ip) ==
    IF s.is = "MultiIpSource" THEN MultiIpSource_next_ip(s) ELSE RandomSource_next_ip(s, ip)

constructor_file_first(a) ==
    IF a.file # None THEN "file" ELSE IF a.cidr # None THEN "cidr" ELSE "random"

\* if let Some(cidr) = &args.cidr ... else if let Some(file_path) = &args.file
\* ... else ...: the constructor main calls.
constructor(a) ==
    IF a.cidr # None THEN "cidr" ELSE IF a.file # None THEN "file" ELSE "random"

\* The sources the chosen constructor can build.
Built(a, content) ==
    IF constructor(a) = "cidr"
    THEN { [is |-> "MultiIpSource", ips |-> v] : v \in Shuffles(from_cidr(a.cidr[1])) }
    ELSE IF constructor(a) = "file"
    THEN { [is |-> "MultiIpSource", ips |-> v] : v \in Shuffles(from_file(content)) }
    ELSE { [is |-> "RandomSource", count |-> a.count, current |-> 0] }

\* main builds its source and takes its total_count.
SelectSource ==
    /\ phase = "select"
    /\ boxed = None
    /\ \E s \in Built(args, fs) :
          /\ boxed' = Some(s)
          /\ total' = Some(dyn_total_count(s))
    /\ chosen' = constructor(args)
    /\ phase' = "drain"
    /\ UNCHANGED <<given, fs>>
    /\ UNCHANGED <<args, ips, tasks, waiters, permits, gcra, passAge, stats, delivered,
                   file, clean_file>>
    /\ UNCHANGED <<filterVars, sourceVars, scanner, probeVars>>

\* One turn of `while let Some(ip) = source.next_ip() { ips.push(ip); }`; the
\* loop ends at the first None.
Drain(ip) ==
    /\ phase = "drain"
    /\ is_public_ipv4(ip)
    /\ LET r == dyn_next_ip(boxed[1], ip) IN
          /\ boxed' = Some(r[1])
          /\ IF r[2] = None
             THEN phase' = "setup" /\ ips' = ips
             ELSE phase' = phase /\ ips' = Append(ips, r[2][1])
    /\ UNCHANGED <<given, fs, total, chosen>>
    /\ UNCHANGED <<args, tasks, waiters, permits, gcra, passAge, stats, delivered,
                   file, clean_file>>
    /\ UNCHANGED <<filterVars, sourceVars, scanner, probeVars>>

InputNext ==
    \/ SelectSource
    \/ \E ip \in RngAddrs : Drain(ip)

\* The entries a --cidr list is made of here, each with the block it denotes
\* (None when it is not a well-formed CIDR block).
Block30 == [text |-> <<"1", "0", ".", "0", ".", "0", ".", "0", "/", "3", "0">>, net |-> Some([addr |-> <<10, 0, 0, 0>>, prefix_len |-> 30])]
Block30Spaced == [text |-> <<" ", "1", "0", ".", "0", ".", "0", ".", "4", "/", "3", "0", " ">>, net |-> Some([addr |-> <<10, 0, 0, 4>>, prefix_len |-> 30])]
Block30HostBits == [text |-> <<"8", ".", "8", ".", "8", ".", "9", "/", "3", "0">>, net |-> Some([addr |-> <<8, 8, 8, 9>>, prefix_len |-> 30])]
Block31 == [text |-> <<"1", "0", ".", "0", ".", "0", ".", "8", "/", "3", "1">>, net |-> Some([addr |-> <<10, 0, 0, 8>>, prefix_len |-> 31])]
Block32 == [text |-> <<"1", ".", "2", ".", "3", ".", "4", "/", "3", "2">>, net |-> Some([addr |-> <<1, 2, 3, 4>>, prefix_len |-> 32])]
NotACidr == [text |-> <<"b", "a", "d">>, net |-> None]
Prefix33 == [text |-> <<"1", "0", ".", "0", ".", "0", ".", "0", "/", "3", "3">>, net |-> None]
EmptyEntry == [text |-> <<>>, net |-> None]
EntryPool ==
    {Block30, Block30Spaced, Block30HostBits, Block31, Block32, NotACidr, Prefix33, EmptyEntry}

\* The lines an input file is made of here, each with the address it denotes
\* (None when it does not parse as one).
LineA == [text |-> <<"1", ".", "2", ".", "3", ".", "4">>, addr |-> Some(<<1, 2, 3, 4>>)]
LineB == [text |-> <<"5", ".", "6", ".", "7", ".", "8">>, addr |-> Some(<<5, 6, 7, 8>>)]
LineSpaced == [text |-> <<" ", " ", "5", ".", "6", ".", "7", ".", "8", " ", "\r">>, addr |-> Some(<<5, 6, 7, 8>>)]
LinePrivate == [text |-> <<"1", "0", ".", "0", ".", "0", ".", "1">>, addr |-> Some(<<10, 0, 0, 1>>)]
LineNotAnIp == [text |-> <<"n", "o", "t", "-", "a", "n", "-", "i", "p">>, addr |-> None]
LineOctet256 == [text |-> <<"2", "5", "6", ".", "1", ".", "1", ".", "1">>, addr |-> None]
LineBlank == [text |-> <<>>, addr |-> None]
LinePool ==
    {LineA, LineB, LineSpaced, LinePrivate, LineNotAnIp, LineOctet256, LineBlank}

EntryLists == UNION { [1..n -> EntryPool] : n \in 0..MaxEntries }
LineLists == UNION { [1..n -> LinePool] : n \in 0..MaxLines }

RECURSIVE Join(_, _)
\* The texts of a list of entries or lines, joined by a separator.
Join(items, sep) ==
    IF items = <<>> THEN <<>>
    ELSE IF Len(items) = 1 THEN items[1].text
    ELSE items[1].text \o <<sep>> \o Join(Tail(items), sep)

\* The content of a file with the given lines, the last one with or without
\* its line feed.
FileText(ls, newline_at_end) ==
    IF newline_at_end /\ ls # <<>> THEN Join(ls, "\n") \o <<"\n">> ELSE Join(ls, "\n")

Path == "ips.txt"

\* Args as far as main reads them up to the stream: one worker, one probe
\* start per second.
ArgsOf(cidr, file_path, count) ==
    [workers |-> 1, rate |-> 1, cidr |-> cidr, file |-> file_path, count |-> count]

\* Runs configured with a CIDR list alone, with an input file alone (readable
\* or not), or with neither.
InputConfigs ==
    { [given |-> [entries |-> es, lines |-> <<>>], fs |-> None,
       args |-> ArgsOf(Some(Join(es, ",")), None, 0)] : es \in EntryLists }
    \cup
    { [given |-> [entries |-> <<>>, lines |-> ls], fs |-> Some(FileText(ls, nl)),
       args |-> ArgsOf(None, Some(Path), 0)] : ls \in LineLists, nl \in BOOLEAN }
    \cup
    { [given |-> [entries |-> <<>>, lines |-> <<>>], fs |-> None,
       args |-> ArgsOf(None, file_path, count)] :
         file_path \in {None, Some(Path)}, count \in 0..MaxCount }

\* Runs configured with any combination of a CIDR list, an input file and a
\* count; None stands for an option that was not given, or a file that cannot
\* be read.
RunCidrLists == {None, Some(<<NotACidr>>), Some(<<NotACidr, Prefix33>>), Some(<<Block32>>)}
RunFiles == {None, Some(<<LineNotAnIp>>), Some(<<LineA>>)}
RunCounts == {0, 2}
RunConfigs ==
    { [given |-> [entries |-> IF es = None THEN <<>> ELSE es[1],
                  lines |-> IF ls = None THEN <<>> ELSE ls[1]],
       fs |-> IF ls = None THEN None ELSE Some(FileText(ls[1], FALSE)),
       args |-> ArgsOf(IF es = None THEN None ELSE Some(Join(es[1], ",")),
                       file_path, count)] :
         es \in RunCidrLists, ls \in RunFiles, file_path \in {None, Some(Path)},
         count \in RunCounts }

\* main before it builds its source.
AtSelect ==
    /\ phase = "select" /\ ips = <<>> /\ tasks = <<>> /\ waiters = <<>>
    /\ permits = 0 /\ gcra = None /\ passAge = <<>>
    /\ stats = NoStats /\ delivered = <<>>
    /\ file = 0 /\ clean_file = 0
    /\ boxed = None /\ total = None /\ chosen = "none"

InputInit ==
    /\ \E c \in InputConfigs : given = c.given /\ fs = c.fs /\ args = c.args
    /\ scanner = [ports |-> SubSeq(DefaultPorts, 1, 1), timeout_ms |-> DefaultTimeout,
                  simulate |-> FALSE]
    /\ AtSelect

RunInit ==
    /\ \E c \in RunConfigs : given = c.given /\ fs = c.fs /\ args = c.args
    /\ scanner \in [ports : {SubSeq(DefaultPorts, 1, 1)}, timeout_ms : {DefaultTimeout},
                     simulate : BOOLEAN]
    /\ AtSelect

InputIdle ==
    /\ given = [entries |-> <<>>, lines |-> <<>>]
    /\ fs = None /\ boxed = None /\ total = None /\ chosen = "none"

----------------------------------------------------------------------------
(* Specifications *)

vars == <<filterVars, sourceVars, scanner, probeVars, engineVars, inputVars>>

InitFilter == FilterInit /\ SourceIdle /\ ProbeIdle /\ EngineIdle /\ InputIdle
InitSource == SourceInit /\ FilterIdle /\ ProbeIdle /\ EngineIdle /\ InputIdle
InitProbe == ProbeInit /\ FilterIdle /\ SourceIdle /\ EngineIdle /\ InputIdle
Init == EngineInit /\ FilterIdle /\ SourceIdle /\ probe = NotCalled /\ attempts = <<>> /\ InputIdle
InitWide == WideInit /\ FilterIdle /\ SourceIdle /\ probe = NotCalled /\ attempts = <<>> /\ InputIdle
InitInput == InputInit /\ FilterIdle /\ SourceIdle /\ probe = NotCalled /\ attempts = <<>>
InitRun == RunInit /\ FilterIdle /\ SourceIdle /\ probe = NotCalled /\ attempts = <<>>
InitBurst == BurstInit /\ FilterIdle /\ SourceIdle /\ probe = NotCalled /\ attempts = <<>> /\ InputIdle

\* main from the source selection to its end.
RunNext ==
    \/ InputNext
    \/ Next

SourceNext ==
    \/ NextIpEnter
    \/ \E ip \in RngAddrs : NextIpSample(ip)

SpecFilter == InitFilter /\ [][FilterCall]_vars
SpecSource == InitSource /\ [][SourceNext]_vars
SpecProbe == InitProbe /\ [][ProbeNext]_vars
Spec == Init /\ [][Next]_vars
SpecBurst == InitBurst /\ [][Next]_vars
SpecWide == InitWide /\ [][Next]_vars
SpecInput == InitInput /\ [][InputNext]_vars
SpecRun == InitRun /\ [][RunNext]_vars

\* The tokio runtime keeps polling main and, through stream.next(), every
\* future of the stream that was woken: a step that stays possible is
\* eventually taken.  Time passes, a connection attempt ends (at the latest
\* when its slice elapses), a sleep ends, the limiter lets a waiting future
\* through once a cell is free, and the semaphore hands a free permit to its
\* oldest waiter.
Fairness ==
    /\ WF_vars(\E file_opened, clean_file_opened \in BOOLEAN :
                  Start(file_opened, clean_file_opened))
    /\ WF_vars(\E i \in 1..Len(tasks) : PassLimiter(i))
    /\ WF_vars(AcquirePermit)
    /\ WF_vars(\E i \in 1..Len(tasks), o \in Outcomes, e \in {0, MaxLatency} :
                  ConnectDone(i, o, e))
    /\ WF_vars(\E i \in 1..Len(tasks), hit \in BOOLEAN, lat \in SimLatencies :
                  SleepDone(i, hit, lat))
    /\ WF_vars(StreamEnd)
    /\ WF_vars(Tick)

SpecLive == Init /\ [][Next]_vars /\ Fairness

----------------------------------------------------------------------------
(* Claims *)

\* The futures that passed the limiter during the last L units of time (a
\* closed window of L/rate seconds ending now), and those of them that have
\* also begun their first connection attempt.
PassedWithin(L) == {k \in 1..Len(passAge) : passAge[k] \in 0..L}
Begun(k) ==
    \/ tasks[k].pc = "connect"
    \/ tasks[k].pc = "yielded" /\ ~scanner.simulate /\ Len(scanner.ports) > 0
BegunWithin(L) == {k \in PassedWithin(L) : Begun(k)}

\* The futures inside check_ip: they acquired a permit and have not completed.
InCheckIp == {k \in 1..Len(tasks) : tasks[k].pc \in {"connect", "sleep"}}

Range(f) == {f[k] : k \in 1..Len(f)}

Failures == stats.timeouts + stats.refused + stats.unreachable

\* C1: once the stream is drained, total_processed equals
\* found + timeouts + refused + unreachable.
C1_TotalIsSumOfCategories ==
    phase = "done" => stats.total_processed = stats.found + Failures

\* Semaphore::new has run: main got past the sinks and the limiter.
SemaphoreCreated == phase \in {"running", "done"} \/ (phase = "panicked" /\ args.rate > 0)

\* C2: from the creation of the semaphore on, the futures inside check_ip
\* never outnumber the worker limit, and the permits in use are exactly
\* theirs: a completed probe has given its permit back whatever its outcome.
C2_PermitsBoundProbes ==
    SemaphoreCreated =>
        /\ Cardinality(InCheckIp) <= args.workers
        /\ permits = args.workers - Cardinality(InCheckIp)

\* With one worker and two addresses: one probe has completed with a Miss and
\* returned the permit, and the other probe now holds it and is connecting.
C2_Witness ==
    /\ args.workers = 1 /\ Len(ips) = 2
    /\ Failures = 1
    /\ Cardinality(InCheckIp) = 1
    /\ permits = 0

\* C3: the aggregation loop receives every entry of the address list exactly
\* once: what it has received are distinct entries of the list, exactly those
\* of the completed futures, total_processed counts them, and once the
\* stream is drained they are all entries and total_processed is the length
\* of the list.
C3_EachAddressOnce ==
    /\ stats.total_processed = Len(delivered)
    /\ \A a, b \in 1..Len(delivered) : a # b => delivered[a] # delivered[b]
    /\ Range(delivered) \subseteq Range(ips)
    /\ \A k \in 1..Len(tasks) : (tasks[k].pc = "yielded") <=> (ips[k] \in Range(delivered))
    /\ phase = "done" =>
          /\ Range(delivered) = Range(ips)
          /\ stats.total_processed = Len(ips)

\* A drained run over two addresses, delivered in the reverse of submission
\* order, one a Hit and one a Miss.
C3_Witness ==
    /\ phase = "done"
    /\ delivered = <<2, 1>>
    /\ stats.found = 1 /\ stats.refused = 1

C8_YieldWithoutWaiting ==
    phase = "running" =>
        \A i \in 1..Len(tasks) :
            /\ tasks[i].pc = "connect" => ENABLED ConnectDone(i, "Connected", 0)
            /\ tasks[i].pc = "sleep" => ENABLED SleepDone(i, FALSE, 5)

\* The second address has been delivered while the first, submitted before
\* it, is still connecting.
C8_Witness ==
    /\ Len(tasks) = 2
    /\ tasks[1].pc = "connect"
    /\ tasks[2].pc = "yielded"
    /\ delivered = <<2>>

Min(S) == CHOOSE x \in S : \A y \in S : x <= y
Max(S) == CHOOSE x \in S : \A y \in S : x >= y

\* The attempts of the check_ip call that connected, and those that failed
\* with an explicit error (connection refused or another network error).
Successes == {k \in 1..Len(attempts) : attempts[k].outcome = "Connected"}
Explicit == {k \in 1..Len(attempts) : attempts[k].outcome \in {"Refused", "OtherError"}}
Category(outcome) == IF outcome = "Refused" THEN ConnectionRefused ELSE Unreachable

\* The tuple check_ip returned: (port_found, latency, error).
Returned == probe.pc = "returned"
port_found == probe.result[1][1]
latency == probe.result[1][2]
error == probe.result[1][3]

\* C4: outside simulate mode check_ip attempts the ports in configuration
\* order and stops at the first one that connects: nothing is attempted after
\* a success, a Hit is returned exactly when an attempt connected, its port
\* is the first port that connected, a Hit carries no error and a Miss no
\* port (and a Miss is returned only after every port was attempted).
C4_FirstSuccessWins ==
    ~scanner.simulate =>
        /\ Len(attempts) <= Len(scanner.ports)
        /\ \A k \in 1..Len(attempts) : attempts[k].port = scanner.ports[k]
        /\ \A k \in Successes : k = Len(attempts) /\ Returned
        /\ Returned =>
            /\ (port_found # None) <=> (Successes # {})
            /\ port_found # None =>
                  /\ port_found = Some(scanner.ports[Min(Successes)])
                  /\ latency # None
                  /\ error = None
            /\ port_found = None =>
                  /\ latency = None
                  /\ Len(attempts) = Len(scanner.ports)

\* Three ports are configured, the first attempt failed, the second connected
\* and check_ip returned a Hit on the second port without trying the third.
C4_Witness ==
    /\ ~scanner.simulate /\ Returned
    /\ Len(scanner.ports) = 3 /\ Len(attempts) = 2
    /\ scanner.ports[1] # scanner.ports[2]
    /\ attempts[1].outcome = "Refused"
    /\ port_found = Some(scanner.ports[2])

\* C5: outside simulate mode a per-port timeout becomes the recorded reason
\* only when none is recorded yet and never replaces a recorded one, and an
\* explicit error on any port supersedes it: once an attempt was refused or
\* failed with another network error the reason is never Timeout, and a Miss
\* has reason Timeout exactly when at least one port was attempted and every
\* attempt timed out.
C5_TimeoutOnlyWithoutExplicitError ==
    ~scanner.simulate =>
        /\ Explicit # {} => probe.last_error \notin {None, Some(Timeout)}
        /\ (probe.last_error = Some(Timeout)) <=>
              /\ Explicit = {}
              /\ \E k \in 1..Len(attempts) : attempts[k].outcome = "Elapsed"
        /\ (Returned /\ port_found = None) =>
              /\ error = probe.last_error
              /\ (error = Some(Timeout)) <=>
                    /\ Len(attempts) >= 1
                    /\ \A k \in 1..Len(attempts) : attempts[k].outcome = "Elapsed"

\* A Miss after a timeout on the first port, a refusal on the second and a
\* timeout on the third: the reason is ConnectionRefused.
C5_Witness ==
    /\ ~scanner.simulate /\ Returned
    /\ Len(attempts) = 3
    /\ attempts[1].outcome = "Elapsed"
    /\ attempts[2].outcome = "Refused"
    /\ attempts[3].outcome = "Elapsed"
    /\ error = Some(ConnectionRefused)

\* C6 as claimed: when no port succeeds, the Miss reason is the category of
\* the first explicit error in port order.
C6_FirstExplicitErrorWins ==
    (~scanner.simulate /\ Returned /\ port_found = None /\ Explicit # {}) =>
        error = Some(Category(attempts[Min(Explicit)].outcome))

\* C6 as the code has it: every explicit error replaces whatever was recorded,
\* so the Miss reason is the category of the last explicit error in port
\* order (and a timeout after it does not change it).
C6_LastExplicitErrorWins ==
    (~scanner.simulate /\ Explicit # {}) =>
        /\ probe.last_error = Some(Category(attempts[Max(Explicit)].outcome))
        /\ (Returned /\ port_found = None) => error = probe.last_error

\* A Miss after a refusal on the first port and another network error on the
\* second: the reason is Unreachable, the later of the two.
C6_Witness ==
    /\ ~scanner.simulate /\ Returned /\ port_found = None
    /\ Len(attempts) >= 2
    /\ attempts[1].outcome = "Refused"
    /\ attempts[2].outcome = "OtherError"
    /\ \A k \in 3..Len(attempts) : attempts[k].outcome = "Elapsed"
    /\ error = Some(Unreachable)

\* The value of the top three octets, and membership of a CIDR block
\* net/prefix with prefix <= 24 (the last octet plays no part in such a block).
Top24(ip) == ip[1] * 65536 + ip[2] * 256 + ip[3]
InBlock(ip, net, prefix) ==
    Top24(ip) \div Pow2(24 - prefix) = Top24(net) \div Pow2(24 - prefix)

\* The excluded ranges as the specification lists them.
ExcludedBlocks ==
    { <<(<<10, 0, 0, 0>>), 8>>,      <<(<<100, 64, 0, 0>>), 10>>,
      <<(<<127, 0, 0, 0>>), 8>>,     <<(<<169, 254, 0, 0>>), 16>>,
      <<(<<172, 16, 0, 0>>), 12>>,   <<(<<192, 168, 0, 0>>), 16>>,
      <<(<<192, 0, 2, 0>>), 24>>,    <<(<<198, 51, 100, 0>>), 24>>,
      <<(<<203, 0, 113, 0>>), 24>> }
Excluded(ip) ==
    \/ \E b \in ExcludedBlocks : InBlock(ip, b[1], b[2])
    \/ ip[1] >= 224

YieldedIps == SelectSeq(returned, LAMBDA r : r # None)

C9_Counts ==
    /\ \A k \in 1..Len(returned) :
          /\ (returned[k] = None) <=> (k > total_count(source))
          /\ returned[k] # None => ~Excluded(returned[k][1])
    /\ Len(YieldedIps) <= total_count(source)
    /\ Len(returned) >= total_count(source) => Len(YieldedIps) = total_count(source)

\* C9: a RandomSource created with count = N returns Some for its first N
\* next_ip calls and None for every later call, every address it returns is
\* outside the excluded ranges, and total_count() is the same N before,
\* during and after draining.
C9_RandomSourceYieldsCount ==
    /\ []C9_Counts
    /\ [][total_count(source') = total_count(source)]_sourceVars

\* A source with count >= 2 has been drained, having discarded a sample on the
\* way, and has answered None to a further call.
C9_Witness ==
    /\ source.count >= 2
    /\ Len(returned) = source.count + 2
    /\ returned[Len(returned)] = None
    /\ rejected
    /\ Len(YieldedIps) = source.count

\* C10: is_public_ipv4 answers for every address, and answers false exactly
\* for the addresses of 10/8, 100.64/10, 127/8, 169.254/16, 172.16/12,
\* 192.168/16, 192.0.2/24, 198.51.100/24, 203.0.113/24 and for a first octet
\* of 224 or more; an address 192.x.y.z is tested against both 192 blocks.
C10_FilterMatchesRanges ==
    /\ is_public_ipv4(fip) \in BOOLEAN
    /\ fres # <<>> => fres[1] = ~Excluded(fip)
    /\ (fres # <<>> /\ fip \in {<<8, 8, 8, 8>>, <<1, 1, 1, 1>>}) => fres[1] = TRUE

\* A documentation address 192.0.2.z, which only the second 192 arm excludes,
\* has been classified.
C10_Witness ==
    /\ fres = <<FALSE>>
    /\ fip[1] = 192 /\ fip[2] = 0 /\ fip[3] = 2

NothingStarted ==
    /\ tasks = <<>> /\ waiters = <<>> /\ passAge = <<>>
    /\ gcra = None /\ permits = 0
    /\ stats = NoStats /\ delivered = <<>>
    /\ file = 0 /\ clean_file = 0

\* C15: a sink that cannot be opened, or a rate of zero, makes main return an
\* error before any probe task is started: no token taken, no permit
\* acquired, no connection attempted, statistics at zero.
C15_FatalErrorsAreReturned ==
    /\ phase = "failed" => NothingStarted
    /\ (args.rate = 0 /\ phase # "setup") => (phase = "failed" /\ NothingStarted)

\* What future k has done so far, by where it is.
OrderKept(k) ==
    /\ tasks[k].pc = "limiter" => (passAge[k] = -1 /\ k \notin Range(waiters))
    /\ tasks[k].pc = "permit" => (passAge[k] >= 0 /\ k \in Range(waiters))
    /\ tasks[k].pc \in {"connect", "sleep"} => (passAge[k] >= 0 /\ k \notin Range(waiters))

\* One step of future k: it queues for a permit only with its token, it
\* leaves the limiter or the queue into check_ip only by taking a permit that
\* was available, and it connects only from there or from an earlier attempt.
OrderStep(k) ==
    /\ (tasks[k].pc # "permit" /\ tasks'[k].pc = "permit") =>
          (tasks[k].pc = "limiter" /\ passAge'[k] >= 0)
    /\ (tasks[k].pc \in {"limiter", "permit"} /\ tasks'[k].pc \notin {"limiter", "permit"}) =>
          /\ passAge'[k] >= 0
          /\ permits >= 1
          /\ tasks'[k].pc \in {"connect", "sleep"} => permits' = permits - 1
    /\ tasks'[k].pc = "connect" => tasks[k].pc \in {"limiter", "permit", "connect"}
    /\ (tasks[k].pc # "connect" /\ tasks'[k].pc = "connect") => tasks'[k].idx = 1

\* C16: every future first passes the limiter, then acquires a permit, then
\* issues its first connection attempt: a future that connects has its token
\* and holds one of the args.workers permits, and a future still waiting at
\* the limiter holds none (the permits in use are exactly those of the
\* futures inside check_ip).
C16_LimiterThenPermitThenConnect ==
    /\ [](SemaphoreCreated =>
            /\ \A k \in 1..Len(tasks) : OrderKept(k)
            /\ permits >= 0
            /\ permits + Cardinality(InCheckIp) = args.workers)
    /\ [][phase = "running" => \A k \in 1..Len(tasks) : OrderStep(k)]_vars

\* With one worker: the first future holds the permit and is connecting, the
\* second has its token and is queued for the permit.
C16_Witness ==
    /\ args.workers = 1 /\ Len(tasks) = 2
    /\ tasks[1].pc = "connect" /\ tasks[2].pc = "permit"
    /\ passAge[1] >= 0 /\ passAge[2] >= 0
    /\ waiters = <<2>> /\ permits = 0

\* C18: at most BufferCap futures are in flight, and BufferCap is above the
\* worker limit of every run, so that the probes connecting at once are
\* limited by args.workers and never by BufferCap.
C18_CapAboveWorkers ==
    SemaphoreCreated =>
        /\ Cardinality(InFlight(tasks)) <= BufferCap
        /\ Cardinality(InCheckIp) <= args.workers
        /\ args.workers < BufferCap

\* C14: in simulate mode check_ip attempts no connection and, whatever the
\* port list (an empty one included), comes back with a Hit or with a Miss of
\* reason Timeout.
C14_SimulateAlwaysReturns ==
    scanner.simulate =>
        /\ attempts = <<>>
        /\ probe.pc # "panicked"
        /\ Returned =>
              \/ port_found # None /\ error = None
              \/ port_found = None /\ error = Some(Timeout)

\* The budget, the number of ports and the slice of the check_ip call.
C17_T == scanner.timeout_ms
C17_n == Len(scanner.ports)
C17_Computed == ~scanner.simulate /\ probe.pc # "start"

\* C17 as claimed: the slice is floor(T / max(1, n)) (the largest s with
\* s * max(1, n) <= T), the n slices never add up to more than T, the slice is
\* defined when n = 0, and it is non-zero whenever T >= 1 and n >= 1.
C17_EveryPortGetsNonZeroSlice ==
    C17_Computed =>
        /\ port_timeout(scanner) * max(1, C17_n) <= C17_T
        /\ C17_T < (port_timeout(scanner) + 1) * max(1, C17_n)
        /\ C17_n * port_timeout(scanner) <= C17_T
        /\ (C17_T >= 1 /\ C17_n >= 1) => port_timeout(scanner) > 0

\* C17 as the code has it: the same floor, the same bound on the sum, a slice
\* of T when n = 0, but a non-zero slice exactly when T >= max(1, n): with
\* 1 <= T < n every port gets a slice of zero, in which no connection is
\* established, so such a call never returns a Hit.
C17_SliceIsFloorOfBudget ==
    C17_Computed =>
        /\ port_timeout(scanner) \in 0..C17_T
        /\ port_timeout(scanner) * max(1, C17_n) <= C17_T
        /\ C17_T < (port_timeout(scanner) + 1) * max(1, C17_n)
        /\ C17_n * port_timeout(scanner) <= C17_T
        /\ C17_n = 0 => port_timeout(scanner) = C17_T
        /\ (port_timeout(scanner) > 0) <=> (C17_T >= max(1, C17_n))
        /\ Successes # {} => C17_T >= C17_n

\* A budget of 2 ms over three ports: every port got a slice of zero, every
\* attempt timed out and check_ip returned a Miss.
C17_Witness ==
    /\ C17_Computed /\ Returned
    /\ C17_T = 2 /\ C17_n = 3
    /\ port_timeout(scanner) = 0
    /\ Len(attempts) = 3
    /\ error = Some(Timeout)

\* The run came to its end: every address was delivered to the aggregation
\* loop and the stream ended.
Drained == phase = "done" /\ Len(delivered) = Len(ips)

\* C19: under fair scheduling a run with at least one worker (its sinks
\* opened and its rate at least one) delivers every address and ends,
\* whatever the probes return; with no worker and a non-empty list the run
\* is started all the same, no probe ever gets a permit, nothing is delivered
\* and the stream never ends.
C19_RunTerminates ==
    /\ (phase = "running" /\ args.workers >= 1) ~> Drained
    /\ []((SemaphoreCreated /\ args.workers = 0 /\ Len(ips) > 0) =>
            /\ phase = "running"
            /\ InCheckIp = {}
            /\ delivered = <<>>)

\* How often x occurs in a sequence.
Count(f, x) == Cardinality({k \in 1..Len(f) : f[k] = x})

\* main has materialized its address list.
Materialized == phase \notin {"select", "drain"}

\* The addresses (as u32) of the block a well-formed entry denotes: those
\* that agree with its address on the first prefix_len bits.  The blocks
\* here have at most 8 addresses.
Block(net) ==
    {n \in (to_u32(net.addr) - 7)..(to_u32(net.addr) + 7) :
        n \div Pow2(32 - net.prefix_len) = to_u32(net.addr) \div Pow2(32 - net.prefix_len)}

\* The block without its network (lowest) and broadcast (highest) address.
HostsWithoutEnds(net) ==
    {from_u32(n) : n \in Block(net) \ {Min(Block(net)), Max(Block(net))}}

\* The same for a prefix shorter than 31 bits; the whole block for /31 and /32.
HostsOfBlock(net) ==
    IF net.prefix_len < 31 THEN HostsWithoutEnds(net) ELSE {from_u32(n) : n \in Block(net)}

WellFormed == {k \in 1..Len(given.entries) : given.entries[k].net # None}

\* C11 as claimed: the list built from a CIDR list holds, as a multiset,
\* the addresses of every well-formed entry's block except its network and
\* broadcast address, and nothing else.
C11_HostsWithoutNetworkAndBroadcast ==
    (chosen = "cidr" /\ Materialized) =>
        \A x \in Range(ips) \cup UNION {HostsWithoutEnds(given.entries[k].net[1]) : k \in WellFormed} :
            Count(ips, x) =
                Cardinality({k \in WellFormed : x \in HostsWithoutEnds(given.entries[k].net[1])})

\* C11 as the code has it: the same for every entry with a prefix shorter
\* than 31 bits; a /31 entry contributes both its addresses and a /32 entry
\* its one address.  The addresses are in no way filtered, a malformed entry
\* contributes nothing and changes nothing for the others, and total_count()
\* is the length of the list.
C11_HostsOfEveryWellFormedEntry ==
    /\ (chosen = "cidr" /\ Materialized) =>
          /\ \A x \in Range(ips) \cup UNION {HostsOfBlock(given.entries[k].net[1]) : k \in WellFormed} :
                Count(ips, x) =
                    Cardinality({k \in WellFormed : x \in HostsOfBlock(given.entries[k].net[1])})
          /\ total = Some(Len(ips))
    /\ (chosen = "cidr" /\ phase = "drain") =>
          total = Some(Len(ips) + Len(boxed[1].ips))

\* The list "bad,10.0.0.0/30": the malformed entry was skipped and the two
\* hosts of the private block were yielded, 10.0.0.2 before 10.0.0.1.
C11_Witness ==
    /\ chosen = "cidr" /\ Materialized
    /\ given.entries = <<NotACidr, Block30>>
    /\ ips = <<(<<10, 0, 0, 2>>), (<<10, 0, 0, 1>>)>>

\* C12: the list built from a file holds, as a multiset, the address of
\* every line that parses as one after trimming, once per such line; other
\* lines and an unreadable file contribute nothing; and total_count() taken
\* before draining is the number of addresses next_ip then yields (shuffling
\* and draining neither add nor remove an address).
C12_FileYieldsParseableLines ==
    /\ (chosen = "file" /\ Materialized) =>
          /\ \A x \in Range(ips) \cup {l.addr[1] : l \in {m \in Range(given.lines) : m.addr # None}} :
                Count(ips, x) =
                    Cardinality({k \in 1..Len(given.lines) : given.lines[k].addr = Some(x)})
          /\ total = Some(Len(ips))
          /\ fs = None => ips = <<>>
    /\ (chosen = "file" /\ phase = "drain") =>
          total = Some(Len(ips) + Len(boxed[1].ips))

\* The file "1.2.3.4\nnot-an-ip\n  5.6.7.8 \r": two addresses were yielded,
\* 5.6.7.8 first.
C12_Witness ==
    /\ chosen = "file" /\ Materialized
    /\ given.lines = <<LineA, LineNotAnIp, LineSpaced>>
    /\ ips = <<(<<5, 6, 7, 8>>), (<<1, 2, 3, 4>>)>>
    /\ total = Some(2)

\* C20: main builds exactly one source, from the CIDR list when one is
\* given, else from the input file when one is given, else a RandomSource.
\* With a CIDR list the address list is that of the list whatever the file
\* and the count are; a CIDR list of malformed entries, an unreadable file
\* or a file with no parseable line gives an empty address list, and the run
\* ends with total_processed = 0.
C20_OneSourceByPrecedence ==
    /\ chosen # "none" =>
          /\ chosen = (IF args.cidr # None THEN "cidr"
                       ELSE IF args.file # None THEN "file" ELSE "random")
          /\ (boxed[1].is = "RandomSource") <=> (chosen = "random")
    /\ (Materialized /\ chosen = "cidr") =>
          /\ \A x \in Range(ips) \cup UNION {HostsOfBlock(given.entries[k].net[1]) : k \in WellFormed} :
                Count(ips, x) =
                    Cardinality({k \in WellFormed : x \in HostsOfBlock(given.entries[k].net[1])})
          /\ WellFormed = {} => ips = <<>>
    /\ (Materialized /\ chosen = "file") =>
          /\ fs = None => ips = <<>>
          /\ (\A k \in 1..Len(given.lines) : given.lines[k].addr = None) => ips = <<>>
    /\ (Materialized /\ chosen = "random") =>
          /\ Len(ips) = args.count
          /\ \A k \in 1..Len(ips) : is_public_ipv4(ips[k])
    /\ phase = "done" =>
          /\ stats.total_processed = Len(ips)
          /\ ips = <<>> => stats.total_processed = 0

\* A finished run given a CIDR list of malformed entries together with a
\* readable file of one address and a count of two: nothing was probed.
C20_Witness ==
    /\ phase = "done"
    /\ args.cidr # None /\ args.file # None /\ args.count = 2
    /\ given.entries = <<NotACidr, Prefix33>> /\ given.lines = <<LineA>>
    /\ chosen = "cidr" /\ ips = <<>>
    /\ stats.total_processed = 0

====
